---------------------------- MODULE Spec2Model ----------------------------
(***************************************************************************)
(* Model of the NMF factorization engine, methods/factorization/nmf.py:    *)
(* Nmf.factorize (the multi-run orchestrator), Nmf._is_satisfied (the      *)
(* stopping evaluator), Nmf._adjustment (the stabilizer), the two update   *)
(* rules and the three objective functions.                                *)
(*                                                                         *)
(* Numbers are fixed-point: the integer x stands for x / SC.  The linear-  *)
(* algebra backend (utils.linalg) is modelled on matrices held as tuples   *)
(* of rows.                                                                *)
(***************************************************************************)
EXTENDS Integers, Sequences, FiniteSets, TLC

(***************************************************************************)
(* Bounds of the model.                                                    *)
(***************************************************************************)
\* rows of V and W
NRows == 2
\* columns of V and H
NCols == 2
\* rows of H, columns of W
Rank == 1
\* fixed-point scale: x stands for x / SC
SC == 16
\* the largest magnitude a number takes (saturation, and the sentinel of x / 0)
Big == 1024
\* largest configured max_iter
MaxIter == 3
\* largest configured test_conv
MaxConv == 2
\* largest configured min_residuals (fixed-point)
MaxMinRes == 2
\* largest configured n_run
MaxRun == 2
\* number of seeds the seeding component draws from
NSeeds == 3
\* number of target matrices V
NTargets == 2

\* np.finfo(dtype).eps in fixed-point: the floor the stabilizer applies
Eps == 1

\* the model stops following a run that has made this many updates
MaxSteps == MaxIter + MaxConv + 1

\* Python's None, and an object attribute that is not set: matrices, tracker, result
None == << >>
\* a number that is not set or not bound (outside every number's range)
NoValue == -Big - 1
\* a method attribute not yet resolved
Unset == "unset"
\* no exception
NoError == "none"
\* an option the caller did not give
Absent == "absent"

(***************************************************************************)
(* The linear-algebra backend, utils.linalg.  Every operation binds its    *)
(* matrix operands to their values before it reads their elements.         *)
(***************************************************************************)
\* the element of a one-element set
Only(S) == CHOOSE r \in S : TRUE

RECURSIVE SumTo(_, _)
\* f[1] + ... + f[n]
SumTo(f, n) == IF n = 0 THEN 0 ELSE f[n] + SumTo(f, n - 1)

RECURSIVE Tup(_, _)
\* the tuple << f[1], ..., f[n] >>
Tup(f, n) == IF n = 0 THEN << >> ELSE Append(Tup(f, n - 1), f[n])

\* the m x n matrix whose element (i, j) is E(i, j): a tuple of m rows
Mat(m, n, E(_, _)) == Tup([i \in 1..m |-> Tup([j \in 1..n |-> E(i, j)], n)], m)

\* a number kept inside the representable range
Sat(x) == IF x > Big THEN Big ELSE IF x < -Big THEN -Big ELSE x

\* fixed-point product
FMul(a, b) == Sat((a * b) \div SC)

\* fixed-point quotient; a division by zero gives the large finite sentinel
FDiv(a, b) == IF b = 0 THEN Big ELSE Sat((a * SC) \div b)

rows(A) == Len(A)
cols(A) == Len(A[1])

\* A.T
T(A) == Only({Mat(cols(a), rows(a), LAMBDA i, j : a[j][i]) : a \in {A}})

\* matrix product
dot(A, B) ==
    Only({Mat(rows(a), cols(b),
              LAMBDA i, j : Sat(SumTo([k \in 1..cols(a) |-> FMul(a[i][k], b[k][j])], cols(a))))
          : a \in {A}, b \in {B}})

\* elementwise product
multiply(A, B) ==
    Only({Mat(rows(a), cols(a), LAMBDA i, j : FMul(a[i][j], b[i][j])) : a \in {A}, b \in {B}})

\* one elementwise binary operation on two numbers
binop(a, b, op) ==
    CASE op = "div" -> FDiv(a, b)
      [] op = "eq"  -> IF a = b THEN 1 ELSE 0
      [] op = "ne"  -> IF a # b THEN 1 ELSE 0

\* elementwise binary operation on two matrices of one shape
elop(A, B, op) ==
    Only({Mat(rows(a), cols(a), LAMBDA i, j : binop(a[i][j], b[i][j], op))
          : a \in {A}, b \in {B}})

\* A - B
msub(A, B) ==
    Only({Mat(rows(a), cols(a), LAMBDA i, j : Sat(a[i][j] - b[i][j])) : a \in {A}, b \in {B}})

\* A + B
madd(A, B) ==
    Only({Mat(rows(a), cols(a), LAMBDA i, j : Sat(a[i][j] + b[i][j])) : a \in {A}, b \in {B}})

RECURSIVE Log2(_)
\* floor of the base-2 logarithm of x / SC, for x > 0
Log2(x) == IF x >= 2 * SC THEN 1 + Log2(x \div 2)
           ELSE IF x < SC THEN Log2(2 * x) - 1
           ELSE 0

\* fixed-point logarithm; log(0) is the large negative sentinel
FLog(x) == IF x <= 0 THEN -Big ELSE Sat(SC * Log2(x))

\* elementwise scalar operation
sop(A, s, op) ==
    Only({Mat(rows(a), cols(a),
              LAMBDA i, j : CASE op = "pow" -> FMul(a[i][j], a[i][j])
                              [] op = "log" -> FLog(a[i][j]))
          : a \in {A}})

\* sum of all elements
msum(A) ==
    Only({Sat(SumTo([i \in 1..rows(a) |-> SumTo(a[i], cols(a))], rows(a))) : a \in {A}})

\* A.sum(0): the 1 x cols matrix of column sums
sum0(A) ==
    Only({Mat(1, cols(a), LAMBDA i, j : Sat(SumTo([k \in 1..rows(a) |-> a[k][j]], rows(a))))
          : a \in {A}})

\* A.sum(1): the rows x 1 matrix of row sums
sum1(A) == Only({Mat(rows(a), 1, LAMBDA i, j : Sat(SumTo(a[i], cols(a)))) : a \in {A}})

\* A tiled m times down and n times across
repmat(A, m, n) ==
    Only({Mat(m * rows(a), n * cols(a),
              LAMBDA i, j : a[((i - 1) % rows(a)) + 1][((j - 1) % cols(a)) + 1])
          : a \in {A}})

\* elementwise max(x, s)
max(A, s) ==
    Only({Mat(rows(a), cols(a), LAMBDA i, j : IF a[i][j] < s THEN s ELSE a[i][j]) : a \in {A}})

\* argmax(A, axis = 0): per column, the 1 x cols matrix of the first row index
\* (counted from 0) holding the column's maximum
argmax0(A) ==
    Only({Mat(1, cols(a),
              LAMBDA r, j : (CHOOSE i \in 1..rows(a) :
                                /\ \A k \in 1..rows(a) : a[k][j] <= a[i][j]
                                /\ \A k \in 1..(i - 1) : a[k][j] < a[i][j]) - 1)
          : a \in {A}})

\* np.ones_like(A)
ones_like(A) == Only({Mat(rows(a), cols(a), LAMBDA i, j : 1) : a \in {A}})


(***************************************************************************)
(* The state of one engine (an Nmf object), of its factorize call, and of  *)
(* the collaborators it uses.                                              *)
(***************************************************************************)
VARIABLES
    V,          \* self.V: the target matrix
    options,    \* self.options: update, objective, track_factor, track_error
    params,     \* self.max_iter, min_residuals, test_conv, n_run, callback
    update,     \* self.update: the resolved update rule
    objective,  \* self.objective: the resolved objective function
    track_factor, \* self.track_factor (FALSE until _set_params sets it)
    track_error,  \* self.track_error (FALSE until _set_params sets it)
    tracker,    \* self.tracker: None, or the history the tracker holds
    W,          \* self.W
    H,          \* self.H
    n_iter,     \* self.n_iter
    final_obj,  \* self.final_obj
    cons,       \* self.cons
    consold,    \* self.consold
    pc,         \* where the factorize call stands
    run,        \* runs of the for loop started by this call
    pobj,       \* local pobj
    cobj,       \* local cobj
    iter,       \* local iter
    fresh,      \* whether the last loop step recomputed cobj
    objs,       \* the values cobj has taken in the current run, oldest first
    error,      \* the exception this call raised, or None
    result,     \* the fit record this call returned, or None
    received,   \* the fit records the completion callback was given, as it saw them
    finished    \* per run of this call whose loop has exited: what the run ended with

vars == << V, options, params, update, objective, track_factor, track_error, tracker,
           W, H, n_iter, final_obj, cons, consold, pc, run, pobj, cobj, iter, fresh,
           objs, error, result, received, finished >>

\* the attributes factorize never writes
config == << V, options, params >>

(***************************************************************************)
(* The seeding component and the inputs.                                   *)
(***************************************************************************)
\* seed.initialize(V, rank, options): nonnegative W (NRows x Rank), H (Rank x NCols);
\* every third seed has zero entries, the others are positive
Seed(s) ==
    LET z == IF s % 3 = 0 THEN 0 ELSE 1
    IN  [W |-> Mat(NRows, Rank, LAMBDA i, j : (z + ((s + i + 2 * j) % 3)) * (SC \div 2)),
         H |-> Mat(Rank, NCols, LAMBDA i, j : (z + ((s * i + j) % 3)) * (SC \div 2))]

\* a positive target matrix
Target(t) == Mat(NRows, NCols, LAMBDA i, j : (1 + ((t * j + i) % 3)) * SC)

UpdateNames == {"euclidean", "divergence"}
ObjectiveNames == {"fro", "div", "conn"}

(***************************************************************************)
(* Nmf: the update rules, the objective functions, the stabilizer and the  *)
(* stopping evaluator.                                                     *)
(***************************************************************************)
\* Nmf.euclidean_update: H from the old W and H, then W from the new H
euclidean_update(Vm, Wm, Hm) ==
    LET H1 == multiply(Hm, elop(dot(T(Wm), Vm), dot(T(Wm), dot(Wm, Hm)), "div"))
        W1 == multiply(Wm, elop(dot(Vm, T(H1)), dot(Wm, dot(H1, T(H1))), "div"))
    IN  [W |-> W1, H |-> H1]

\* divergence_update with the quotient V / (W H) computed once and used twice
divergence_update_reuse(Vm, Wm, Hm) ==
    LET Q  == elop(Vm, dot(Wm, Hm), "div")
        H1 == repmat(T(sum0(Wm)), 1, cols(Vm))
        Hn == multiply(Hm, elop(dot(T(Wm), Q), H1, "div"))
        W1 == repmat(T(sum1(Hn)), rows(Vm), 1)
        Wn == multiply(Wm, elop(dot(Q, T(Hn)), W1, "div"))
    IN  [W |-> Wn, H |-> Hn]

\* Nmf.divergence_update
divergence_update(Vm, Wm, Hm) ==
    LET H1 == repmat(T(sum0(Wm)), 1, cols(Vm))
        Hn == multiply(Hm, elop(dot(T(Wm), elop(Vm, dot(Wm, Hm), "div")), H1, "div"))
        W1 == repmat(T(sum1(Hn)), rows(Vm), 1)
        Wn == multiply(Wm, elop(dot(elop(Vm, dot(Wm, Hn), "div"), T(Hn)), W1, "div"))
    IN  [W |-> Wn, H |-> Hn]

\* self.update()
DoUpdate(Vm, Wm, Hm) ==
    IF update = "euclidean" THEN euclidean_update(Vm, Wm, Hm)
    ELSE divergence_update(Vm, Wm, Hm)

\* _adjustment with the floor of W forgotten
_adjustment_H_only(Wm, Hm) == [W |-> Wm, H |-> max(Hm, Eps)]

\* Nmf._adjustment: H first, then W, each floored at eps
_adjustment(Wm, Hm) == [W |-> max(Wm, Eps), H |-> max(Hm, Eps)]

\* Nmf.fro_objective
fro_objective(Vm, Wm, Hm) == msum(sop(msub(Vm, dot(Wm, Hm)), 2, "pow"))

\* Nmf.div_objective
div_objective(Vm, Wm, Hm) ==
    LET Va == dot(Wm, Hm)
    IN  msum(madd(msub(multiply(Vm, sop(elop(Vm, Va, "div"), 0, "log")), Vm), Va))

\* Nmf.conn_objective: the value returned and the connectivity state left behind;
\* reading self.cons when the object has no such attribute raises AttributeError
conn_objective(Vm, Hm, cns, cnsold) ==
    LET idx == argmax0(Hm)
        mat1 == repmat(idx, cols(Vm), 1)
        mat2 == repmat(T(idx), 1, cols(Vm))
        new == elop(mat1, mat2, "eq")
    IN  IF cnsold = None
        THEN IF cns = None
             THEN [err |-> "AttributeError", val |-> NoValue, cons |-> cns, consold |-> cnsold]
             ELSE LET old == msub(ones_like(cns), new)
                  IN  [err |-> NoError, val |-> msum(elop(new, old, "ne")),
                       cons |-> new, consold |-> old]
        ELSE [err |-> NoError, val |-> msum(elop(new, cns, "ne")),
              cons |-> new, consold |-> cns]

\* self.objective()
DoObjective(Vm, Wm, Hm, cns, cnsold) ==
    CASE objective = "fro" ->
            [err |-> NoError, val |-> fro_objective(Vm, Wm, Hm), cons |-> cns, consold |-> cnsold]
      [] objective = "div" ->
            [err |-> NoError, val |-> div_objective(Vm, Wm, Hm), cons |-> cns, consold |-> cnsold]
      [] objective = "conn" -> conn_objective(Vm, Hm, cns, cnsold)

\* _is_satisfied with max_iter compared by < instead of <=
_is_satisfied_late(p_obj, c_obj, it) ==
    IF params.test_conv # 0 /\ it % params.test_conv # 0 THEN TRUE
    ELSE IF params.max_iter # 0 /\ params.max_iter < it THEN FALSE
    ELSE IF params.min_residuals # 0 /\ it > 0 /\ c_obj - p_obj <= params.min_residuals
         THEN FALSE
    ELSE IF it > 0 /\ c_obj > p_obj THEN FALSE
    ELSE TRUE

\* _is_satisfied with the max_iter test made before the test_conv one
_is_satisfied_maxfirst(p_obj, c_obj, it) ==
    IF params.max_iter # 0 /\ params.max_iter <= it THEN FALSE
    ELSE IF params.test_conv # 0 /\ it % params.test_conv # 0 THEN TRUE
    ELSE IF params.min_residuals # 0 /\ it > 0 /\ c_obj - p_obj <= params.min_residuals
         THEN FALSE
    ELSE IF it > 0 /\ c_obj > p_obj THEN FALSE
    ELSE TRUE

\* _is_satisfied with the max_iter test left out
_is_satisfied_nomax(p_obj, c_obj, it) ==
    IF params.test_conv # 0 /\ it % params.test_conv # 0 THEN TRUE
    ELSE IF params.min_residuals # 0 /\ it > 0 /\ c_obj - p_obj <= params.min_residuals
         THEN FALSE
    ELSE IF it > 0 /\ c_obj > p_obj THEN FALSE
    ELSE TRUE

\* _is_satisfied comparing the size of the change with min_residuals
_is_satisfied_magnitude(p_obj, c_obj, it) ==
    IF params.test_conv # 0 /\ it % params.test_conv # 0 THEN TRUE
    ELSE IF params.max_iter # 0 /\ params.max_iter <= it THEN FALSE
    ELSE IF params.min_residuals # 0 /\ it > 0
            /\ c_obj - p_obj <= params.min_residuals
            /\ p_obj - c_obj <= params.min_residuals
         THEN FALSE
    ELSE IF it > 0 /\ c_obj > p_obj THEN FALSE
    ELSE TRUE

\* Nmf._is_satisfied: TRUE to go on iterating, FALSE to stop
_is_satisfied(p_obj, c_obj, it) ==
    IF params.test_conv # 0 /\ it % params.test_conv # 0 THEN TRUE
    ELSE IF params.max_iter # 0 /\ params.max_iter <= it THEN FALSE
    ELSE IF params.min_residuals # 0 /\ it > 0 /\ c_obj - p_obj <= params.min_residuals
         THEN FALSE
    ELSE IF it > 0 /\ c_obj > p_obj THEN FALSE
    ELSE TRUE

\* self.residuals(): the scalar residual the tracker is given
residuals(Vm, Wm, Hm) == msum(sop(msub(Vm, dot(Wm, Hm)), 2, "pow"))

\* mf_track.Mf_track()
Mf_track == [errors |-> << >>, factors |-> << >>]

\* mf_fit.Mf_fit(self): the record reads the engine's attributes
Mf_fit(Wm, Hm, fobj, nit) == [W |-> Wm, H |-> Hm, final_obj |-> fobj, n_iter |-> nit]

(***************************************************************************)
(* The initial states: an engine constructed with its parameters, on which *)
(* factorize has just been called.                                         *)
(***************************************************************************)
Configured(targets, updates, objectives, flags, runs, callbacks, maxiters, minres, convs) ==
    /\ V \in {Target(t) : t \in targets}
    /\ options \in [update : updates, objective : objectives,
                    track_factor : flags, track_error : flags]
    /\ params \in [max_iter : maxiters, min_residuals : minres, test_conv : convs,
                   n_run : runs, callback : callbacks]

\* the attributes of a newly constructed engine, and no call's outcome yet
Constructed ==
    /\ update = Unset
    /\ objective = Unset
    /\ track_factor = FALSE
    /\ track_error = FALSE
    /\ tracker = None
    /\ W = None
    /\ H = None
    /\ n_iter = NoValue
    /\ final_obj = NoValue
    /\ cons = None
    /\ consold = None
    /\ run = 0
    /\ fresh = FALSE
    /\ objs = << >>
    /\ error = NoError
    /\ result = None
    /\ received = << >>
    /\ finished = << >>

\* factorize has been called: line 55 is next, the locals are unbound
Called ==
    /\ pc = "set_params"
    /\ pobj = NoValue
    /\ cobj = NoValue
    /\ iter = NoValue

InitWith(targets, updates, objectives, flags, runs, callbacks, maxiters, minres, convs) ==
    /\ Configured(targets, updates, objectives, flags, runs, callbacks, maxiters, minres, convs)
    /\ Constructed
    /\ Called

(***************************************************************************)
(* factorize, step by step.                                                *)
(***************************************************************************)
\* self.options.get(name, default)
Get(value, default) == IF value = Absent THEN default ELSE value

\* _set_params taking the default for a name it does not know
SetParamsLenient ==
    /\ pc = "set_params"
    /\ pc' = "run_start"
    /\ update' = IF options.update \in UpdateNames THEN options.update ELSE "euclidean"
    /\ objective' = IF options.objective \in ObjectiveNames THEN options.objective ELSE "fro"
    /\ track_factor' = options.track_factor
    /\ track_error' = options.track_error
    /\ tracker' = IF (options.track_factor /\ params.n_run > 1) \/ options.track_error
                  THEN Mf_track ELSE None
    /\ UNCHANGED << config, W, H, n_iter, final_obj, cons, consold, run, pobj, cobj, iter,
                    fresh, objs, error, result, received, finished >>

\* line 55, Nmf._set_params: getattr raises AttributeError for a name the class
\* has no <name>_update or <name>_objective method for
SetParams ==
    /\ pc = "set_params"
    /\ IF Get(options.update, "euclidean") \notin UpdateNames
       THEN /\ pc' = "raised"
            /\ error' = "AttributeError"
            /\ UNCHANGED << update, objective, track_factor, track_error, tracker >>
       ELSE IF Get(options.objective, "fro") \notin ObjectiveNames
       THEN /\ pc' = "raised"
            /\ error' = "AttributeError"
            /\ update' = Get(options.update, "euclidean")
            /\ UNCHANGED << objective, track_factor, track_error, tracker >>
       ELSE /\ pc' = "run_start"
            /\ update' = Get(options.update, "euclidean")
            /\ objective' = Get(options.objective, "fro")
            /\ track_factor' = options.track_factor
            /\ track_error' = options.track_error
            /\ tracker' = IF (options.track_factor /\ params.n_run > 1) \/ options.track_error
                          THEN Mf_track ELSE None
            /\ UNCHANGED error
    /\ UNCHANGED << config, W, H, n_iter, final_obj, cons, consold, run, pobj, cobj, iter,
                    fresh, objs, result, received, finished >>

\* RunStart recording a residual for the first objective evaluation as well
RunStartTracked ==
    /\ pc = "run_start"
    /\ run < params.n_run
    /\ \E s \in 1..NSeeds :
        \E sd \in {Seed(s)} : \E ob \in {DoObjective(V, sd.W, sd.H, cons, consold)} :
            /\ W' = sd.W
            /\ H' = sd.H
            /\ run' = run + 1
            /\ cons' = ob.cons
            /\ consold' = ob.consold
            /\ IF ob.err # NoError
               THEN /\ pc' = "raised"
                    /\ error' = ob.err
                    /\ objs' = << >>
                    /\ UNCHANGED << pobj, cobj, iter, fresh, tracker >>
               ELSE /\ pc' = "loop"
                    /\ pobj' = ob.val
                    /\ cobj' = ob.val
                    /\ iter' = 0
                    /\ fresh' = TRUE
                    /\ objs' = << ob.val >>
                    /\ tracker' = IF track_error
                                  THEN [tracker EXCEPT
                                          !.errors = Append(@, residuals(V, sd.W, sd.H))]
                                  ELSE tracker
                    /\ UNCHANGED error
    /\ UNCHANGED << config, update, objective, track_factor, track_error,
                    n_iter, final_obj, result, received, finished >>

\* lines 57-60: the for loop starts its next run: seeding, the first objective
\* evaluation, iter = 0
RunStart ==
    /\ pc = "run_start"
    /\ run < params.n_run
    /\ \E s \in 1..NSeeds :
        \E sd \in {Seed(s)} : \E ob \in {DoObjective(V, sd.W, sd.H, cons, consold)} :
            /\ W' = sd.W
            /\ H' = sd.H
            /\ run' = run + 1
            /\ cons' = ob.cons
            /\ consold' = ob.consold
            /\ IF ob.err # NoError
               THEN /\ pc' = "raised"
                    /\ error' = ob.err
                    /\ objs' = << >>
                    /\ UNCHANGED << pobj, cobj, iter, fresh >>
               ELSE /\ pc' = "loop"
                    /\ pobj' = ob.val
                    /\ cobj' = ob.val
                    /\ iter' = 0
                    /\ fresh' = TRUE
                    /\ objs' = << ob.val >>
                    /\ UNCHANGED error
    /\ UNCHANGED << config, update, objective, track_factor, track_error, tracker,
                    n_iter, final_obj, result, received, finished >>

\* lines 61-68: the stopping evaluator says continue: one pass of the while body
\* (up: after the update, ad: after the stabilizer, ob: the objective step)
Iterate ==
    /\ pc = "loop"
    /\ _is_satisfied(pobj, cobj, iter)
    /\ iter < MaxSteps
    /\ \E up \in {DoUpdate(V, W, H)} : \E ad \in {_adjustment(up.W, up.H)} :
       \E recompute \in {params.test_conv = 0 \/ iter % params.test_conv = 0} :
       \E ob \in {IF recompute THEN DoObjective(V, ad.W, ad.H, cons, consold)
                 ELSE [err |-> NoError, val |-> cobj, cons |-> cons, consold |-> consold]} :
           /\ pobj' = cobj
           /\ W' = ad.W
           /\ H' = ad.H
           /\ cons' = ob.cons
           /\ consold' = ob.consold
           /\ IF ob.err # NoError
              THEN /\ pc' = "raised"
                   /\ error' = ob.err
                   /\ UNCHANGED << cobj, iter, fresh, objs, tracker >>
              ELSE /\ cobj' = ob.val
                   /\ iter' = iter + 1
                   /\ fresh' = recompute
                   /\ objs' = Append(objs, ob.val)
                   /\ tracker' = IF track_error
                                 THEN [tracker EXCEPT
                                         !.errors = Append(@, residuals(V, ad.W, ad.H))]
                                 ELSE tracker
                   /\ UNCHANGED << pc, error >>
    /\ UNCHANGED << config, update, objective, track_factor, track_error, n_iter, final_obj,
                    run, result, received, finished >>

\* LoopExit handing the tracker the engine's own W and H instead of copies: every
\* snapshot is the one live pair and shows what that pair holds now
LoopExitNoCopy ==
    /\ pc = "loop"
    /\ ~ _is_satisfied(pobj, cobj, iter)
    /\ finished' = Append(finished, [W |-> W, H |-> H, obj |-> cobj, iter |-> iter,
                                      objs |-> objs])
    /\ \E raises \in (IF params.callback THEN BOOLEAN ELSE {FALSE}) :
        /\ final_obj' = IF params.callback THEN cobj ELSE final_obj
        /\ received' = IF params.callback
                       THEN Append(received, Mf_fit(W, H, cobj, n_iter))
                       ELSE received
        /\ IF raises
           THEN /\ pc' = "raised"
                /\ error' = "CallbackError"
                /\ UNCHANGED tracker
           ELSE IF track_factor /\ tracker = None
           THEN /\ pc' = "raised"
                /\ error' = "AttributeError"
                /\ UNCHANGED tracker
           ELSE /\ pc' = "run_start"
                /\ tracker' = IF track_factor
                              THEN [tracker EXCEPT
                                      !.factors = Tup([k \in 1..(Len(@) + 1) |-> [W |-> W, H |-> H]],
                                                      Len(@) + 1)]
                              ELSE tracker
                /\ UNCHANGED error
    /\ UNCHANGED << config, update, objective, track_factor, track_error, W, H, n_iter,
                    cons, consold, run, pobj, cobj, iter, fresh, objs, result >>

\* LoopExit with a callback failure caught: the call goes on with the next run
LoopExitSwallow ==
    /\ pc = "loop"
    /\ ~ _is_satisfied(pobj, cobj, iter)
    /\ finished' = Append(finished, [W |-> W, H |-> H, obj |-> cobj, iter |-> iter,
                                      objs |-> objs])
    /\ \E raises \in (IF params.callback THEN BOOLEAN ELSE {FALSE}) :
        /\ final_obj' = IF params.callback THEN cobj ELSE final_obj
        /\ received' = IF params.callback
                       THEN Append(received, Mf_fit(W, H, cobj, n_iter))
                       ELSE received
        /\ IF track_factor /\ tracker = None
           THEN /\ pc' = "raised"
                /\ error' = "AttributeError"
                /\ UNCHANGED tracker
           ELSE /\ pc' = "run_start"
                /\ tracker' = IF track_factor
                              THEN [tracker EXCEPT !.factors = Append(@, [W |-> W, H |-> H])]
                              ELSE tracker
                /\ error' = IF raises THEN "CallbackError" ELSE error
    /\ UNCHANGED << config, update, objective, track_factor, track_error, W, H, n_iter,
                    cons, consold, run, pobj, cobj, iter, fresh, objs, result >>

\* lines 61, 69-74: the stopping evaluator says stop: the callback is given a fit
\* record (and may raise), then the factors are tracked; self.tracker._track_factor
\* on a tracker that is None raises AttributeError
LoopExit ==
    /\ pc = "loop"
    /\ ~ _is_satisfied(pobj, cobj, iter)
    /\ finished' = Append(finished, [W |-> W, H |-> H, obj |-> cobj, iter |-> iter,
                                      objs |-> objs])
    /\ \E raises \in (IF params.callback THEN BOOLEAN ELSE {FALSE}) :
        /\ final_obj' = IF params.callback THEN cobj ELSE final_obj
        /\ received' = IF params.callback
                       THEN Append(received, Mf_fit(W, H, cobj, n_iter))
                       ELSE received
        /\ IF raises
           THEN /\ pc' = "raised"
                /\ error' = "CallbackError"
                /\ UNCHANGED tracker
           ELSE IF track_factor /\ tracker = None
           THEN /\ pc' = "raised"
                /\ error' = "AttributeError"
                /\ UNCHANGED tracker
           ELSE /\ pc' = "run_start"
                /\ tracker' = IF track_factor
                              THEN [tracker EXCEPT !.factors = Append(@, [W |-> W, H |-> H])]
                              ELSE tracker
                /\ UNCHANGED error
    /\ UNCHANGED << config, update, objective, track_factor, track_error, W, H, n_iter,
                    cons, consold, run, pobj, cobj, iter, fresh, objs, result >>

\* the run that ended with the lowest objective value (the first of them)
BestRun ==
    CHOOSE k \in 1..Len(finished) :
        /\ \A j \in 1..Len(finished) : finished[k].obj <= finished[j].obj
        /\ \A j \in 1..(k - 1) : finished[j].obj > finished[k].obj

\* Return selecting the best run instead of the last
ReturnBest ==
    /\ pc = "run_start"
    /\ run >= params.n_run
    /\ IF iter = NoValue
       THEN /\ pc' = "raised"
            /\ error' = "UnboundLocalError"
            /\ UNCHANGED << n_iter, final_obj, result, W, H >>
       ELSE /\ pc' = "returned"
            /\ n_iter' = finished[BestRun].iter
            /\ final_obj' = finished[BestRun].obj
            /\ W' = finished[BestRun].W
            /\ H' = finished[BestRun].H
            /\ result' = Mf_fit(finished[BestRun].W, finished[BestRun].H,
                                finished[BestRun].obj, finished[BestRun].iter)
            /\ UNCHANGED error
    /\ UNCHANGED << config, update, objective, track_factor, track_error, tracker,
                    cons, consold, run, pobj, cobj, iter, fresh, objs, received, finished >>

\* lines 76-79: the for loop is exhausted; with no run made the locals iter and
\* cobj were never bound and reading iter raises UnboundLocalError
Return ==
    /\ pc = "run_start"
    /\ run >= params.n_run
    /\ IF iter = NoValue
       THEN /\ pc' = "raised"
            /\ error' = "UnboundLocalError"
            /\ UNCHANGED << n_iter, final_obj, result >>
       ELSE /\ pc' = "returned"
            /\ n_iter' = iter
            /\ final_obj' = cobj
            /\ result' = Mf_fit(W, H, cobj, iter)
            /\ UNCHANGED error
    /\ UNCHANGED << config, update, objective, track_factor, track_error, tracker, W, H,
                    cons, consold, run, pobj, cobj, iter, fresh, objs, received, finished >>

\* one factorize call
Next == SetParams \/ RunStart \/ Iterate \/ LoopExit \/ Return

\* the runs of one call: every update rule and objective, tracking and callback on
\* or off, one to MaxRun runs, each stopped by max_iter
Init ==
    InitWith(1..NTargets, UpdateNames, ObjectiveNames, BOOLEAN, 1..MaxRun, BOOLEAN,
             1..MaxIter, {0}, {0})

Spec == Init /\ [][Next]_vars

\* one run under every setting of the three stopping parameters (0: not configured)
StopInit ==
    InitWith(1..NTargets, UpdateNames, {"fro", "div"}, {FALSE}, {1}, {FALSE},
             0..MaxIter, 0..MaxMinRes, 0..MaxConv)

\* factorize is sequential and blocking: a call that can take a step takes it
StopSpec == StopInit /\ [][Next]_vars /\ WF_vars(Next)

\* a call under every kind of configuration: names given, not given or unknown,
\* no run or one run asked for
ConfInit ==
    InitWith({1}, UpdateNames \cup {Absent, "bogus"}, {"fro", "div", Absent, "bogus"},
             BOOLEAN, 0..1, BOOLEAN, {1}, {0}, {0})

ConfSpec == ConfInit /\ [][Next]_vars

(***************************************************************************)
(* The stopping evaluator on its own: one consultation on any previous and *)
(* current objective value, iteration number and stopping parameters.      *)
(***************************************************************************)
\* the objective values a consultation is given
ObjValues == 0..(MaxMinRes + 2)

SatInit ==
    /\ Configured({1}, {"euclidean"}, {"fro"}, {FALSE}, {1}, {FALSE},
                  0..MaxIter, 0..MaxMinRes, 0..MaxConv)
    /\ Constructed
    /\ pc = "consult"
    /\ pobj \in ObjValues
    /\ cobj \in ObjValues
    /\ iter \in 0..MaxSteps

\* the while test of line 61, alone
Consult ==
    /\ pc = "consult"
    /\ pc' = IF _is_satisfied(pobj, cobj, iter) THEN "continue" ELSE "stop"
    /\ UNCHANGED << config, update, objective, track_factor, track_error, tracker, W, H,
                    n_iter, final_obj, cons, consold, run, pobj, cobj, iter, fresh, objs,
                    error, result, received, finished >>

SatSpec == SatInit /\ [][Consult]_vars

(***************************************************************************)
(* Properties.                                                             *)
(***************************************************************************)
\* every element of matrix A is at least e
AllAtLeast(A, e) == \A i \in 1..rows(A) : \A j \in 1..cols(A) : A[i][j] >= e

\* no value of the sequence exceeds the one before it
NonIncreasing(q) == \A i \in 2..Len(q) : q[i] <= q[i - 1]

\* every value of the sequence is below the one before it
StrictlyDecreasing(q) == \A i \in 2..Len(q) : q[i] < q[i - 1]

\* the factorize call has ended
Ended == pc \in {"returned", "raised"}

\* only max_iter is configured
OnlyMaxIter ==
    params.max_iter >= 1 /\ params.test_conv = 0 /\ params.min_residuals = 0

\* C1 as stated: with max_iter = N >= 1 the only stopping parameter configured, every
\* run makes exactly N update steps, whatever the objective values are.
C1_ExactlyMaxIterUpdates ==
    OnlyMaxIter => \A k \in 1..Len(finished) : finished[k].iter = params.max_iter

\* C1 amended: with max_iter = N >= 1 the only stopping parameter configured, every
\* run makes at most N update steps and then stops; it makes exactly N when the
\* objective value never rose from one iteration to the next, and it stops short
\* of N only at an iteration whose objective value is above the previous one.
C1_AtMostMaxIterUpdates ==
    OnlyMaxIter =>
        /\ pc = "loop" => iter <= params.max_iter
        /\ \A k \in 1..Len(finished) :
              LET r == finished[k]
              IN  /\ r.iter <= params.max_iter
                  /\ NonIncreasing(r.objs) => r.iter = params.max_iter
                  /\ r.iter < params.max_iter =>
                        r.iter >= 1 /\ r.objs[r.iter + 1] > r.objs[r.iter]

\* a run of N = MaxIter updates whose objective fell and never rose
C1_Witness ==
    /\ OnlyMaxIter
    /\ params.max_iter = MaxIter
    /\ pc = "returned"
    /\ finished[1].iter = MaxIter
    /\ NonIncreasing(finished[1].objs)
    /\ finished[1].objs[MaxIter + 1] < finished[1].objs[1]

\* only min_residuals is configured
OnlyMinResiduals ==
    params.min_residuals > 0 /\ params.test_conv = 0 /\ params.max_iter = 0

\* C2 as stated: with only min_residuals = t > 0 configured and a strictly
\* decreasing objective, a run does not stop while the drops are larger than t:
\* the drop seen at the iteration it stops at is smaller than t.
C2_StopsAtFirstSmallDrop ==
    OnlyMinResiduals =>
        \A k \in 1..Len(finished) :
            LET r == finished[k]
            IN  (r.iter >= 1 /\ StrictlyDecreasing(r.objs)) =>
                    r.objs[r.iter] - r.objs[r.iter + 1] < params.min_residuals

\* the stopping rules of the specification's table, in order: when a rule applies
\* and whether it says go on
Rules(p, c, it) ==
    << [when |-> params.test_conv # 0 /\ it % params.test_conv # 0, go |-> TRUE],
       [when |-> params.max_iter # 0 /\ params.max_iter <= it, go |-> FALSE],
       [when |-> params.min_residuals # 0 /\ it > 0 /\ c - p <= params.min_residuals,
        go |-> FALSE],
       [when |-> it > 0 /\ c > p, go |-> FALSE],
       [when |-> TRUE, go |-> TRUE] >>

\* the index of the first rule that applies
FirstMatch(rules) ==
    CHOOSE i \in 1..Len(rules) : rules[i].when /\ \A k \in 1..(i - 1) : ~ rules[k].when

\* C3: the decision of _is_satisfied is that of the first rule of the table that
\* applies (a parameter that is 0 is not configured).
C3_DecisionIsFirstMatchingRule ==
    pc \in {"continue", "stop"} =>
        LET rules == Rules(pobj, cobj, iter)
        IN  (pc = "continue") = rules[FirstMatch(rules)].go

\* a consultation decided by rule 3 on a falling objective, rules 1 and 2 configured
\* and not applying
C3_Witness ==
    /\ pc = "stop"
    /\ params.test_conv = 2 /\ iter = 2
    /\ params.max_iter = 3
    /\ params.min_residuals = 1
    /\ cobj < pobj

\* a limit that guarantees termination is configured
Limited ==
    params.max_iter >= 1 \/ (params.min_residuals > 0 /\ params.test_conv >= 1)

\* neither max_iter nor min_residuals is configured
NoLimits == params.max_iter = 0 /\ params.min_residuals = 0

\* C4: with max_iter >= 1, or with min_residuals > 0 and test_conv >= 1, the loop
\* stops and the call ends; with no limit configured the evaluator says continue
\* for as long as the objective has not risen, so such a run never stops.
C4_LimitsGuaranteeTermination ==
    /\ Limited => <>Ended
    /\ [](NoLimits /\ pc = "loop" /\ NonIncreasing(objs) => _is_satisfied(pobj, cobj, iter))

\* a run with no limit that is still going after MaxSteps updates
C4_Witness == NoLimits /\ pc = "loop" /\ iter = MaxSteps /\ NonIncreasing(objs)

\* the last run that ended
LastRun == finished[Len(finished)]

\* C5: the fit record factorize returns is that of the last run: its iteration
\* count, its final objective value, its W and its H.
C5_ReturnsLastRun ==
    pc = "returned" =>
        /\ Len(finished) = params.n_run
        /\ result = Mf_fit(LastRun.W, LastRun.H, LastRun.obj, LastRun.iter)

\* a call that returned after two runs, the first of which ended lower
C5_Witness ==
    /\ pc = "returned"
    /\ params.n_run = 2
    /\ finished[1].obj < finished[2].obj
    /\ result.final_obj = finished[2].obj

\* C6 as stated: the callback is given one fit record per run whose loop has
\* exited, holding that run's final W, H, objective value and iteration count.
C6_CallbackGetsRunRecord ==
    params.callback =>
        /\ Len(received) = Len(finished)
        /\ \A k \in 1..Len(received) :
              received[k] = Mf_fit(finished[k].W, finished[k].H,
                                   finished[k].obj, finished[k].iter)

\* C7 as stated: with factor tracking on, every run that completed has one (W, H)
\* snapshot in the history and the call raises nothing (a call the callback or
\* the objective function aborted aside).
C7_EveryRunTracked ==
    (pc \in {"run_start", "returned", "raised"} /\ track_factor
        /\ objective # "conn" /\ error # "CallbackError") =>
        /\ error = NoError
        /\ Len(finished) >= 1 =>
              tracker # None /\ Len(tracker.factors) = Len(finished)

\* the co-assignment matrix of H: 1 where two columns have the same dominant row
Connectivity(Hm) ==
    LET idx == argmax0(Hm)
    IN  Mat(cols(Hm), cols(Hm), LAMBDA i, j : IF idx[1][i] = idx[1][j] THEN 1 ELSE 0)

C9_FirstConnEvaluation ==
    (objective = "conn" /\ run = 1 /\ Len(finished) = 0 /\ pc # "run_start"
        /\ (iter = NoValue \/ iter = 0)) =>
        /\ cobj = NCols * NCols
        /\ cons = Connectivity(H)
        /\ consold = msub(ones_like(cons), cons)

\* C10: once a run has made an update step, every element of W and of H is at
\* least eps: this is what every later objective evaluation and update reads.
C10_FactorsAtLeastEps ==
    (pc \in {"loop", "run_start", "returned"} /\ iter # NoValue /\ iter >= 1) =>
        AllAtLeast(W, Eps) /\ AllAtLeast(H, Eps)

\* one update made from a seed with a zero in W: the update leaves the element at
\* zero and the stabilizer has raised it to eps
C10_Witness ==
    /\ pc = "loop"
    /\ iter = 1
    /\ \E s \in 1..NSeeds :
          \E up \in {DoUpdate(V, Seed(s).W, Seed(s).H)} :
              /\ W = max(up.W, Eps)
              /\ H = max(up.H, Eps)
              /\ \E i \in 1..NRows : \E j \in 1..Rank : up.W[i][j] = 0 /\ W[i][j] = Eps

\* nothing of a run has happened: no seeding, no update, no objective evaluation,
\* no callback and no tracker call
NothingRan ==
    /\ run = 0
    /\ W = None /\ H = None
    /\ iter = NoValue /\ cobj = NoValue
    /\ objs = << >>
    /\ received = << >>
    /\ finished = << >>
    /\ tracker # None => (tracker.errors = << >> /\ tracker.factors = << >>)

\* C11 as stated: a call with n_run < 1 fails at parameter resolution with a
\* configuration error, before anything of a run has happened, and not after the
\* run loop.
C11_NoRunFailsAtResolution ==
    params.n_run < 1 =>
        /\ pc \in {"set_params", "raised"}
        /\ pc = "raised" => (error = "ConfigurationError" /\ update = Unset)
        /\ NothingRan

\* the configured names are ones _set_params resolves
NamesKnown ==
    /\ options.update \in UpdateNames \cup {Absent}
    /\ options.objective \in ObjectiveNames \cup {Absent}

RECURSIVE SumIters(_)
\* the update steps made by the runs of q, summed
SumIters(q) == IF q = << >> THEN 0 ELSE q[Len(q)].iter + SumIters(SubSeq(q, 1, Len(q) - 1))

\* the callback raised in the run that has just ended
CallbackFailed == error = "CallbackError"

\* C13: when the callback raises during run k the call ends with that error: no
\* step follows, no later run has been seeded, no fit record is returned, and the
\* tracker holds what it held when the callback was called: one residual per
\* update step made so far and one snapshot per earlier run.
C13_CallbackFailureAborts ==
    /\ [](CallbackFailed =>
            /\ pc = "raised"
            /\ result = None
            /\ run = Len(finished)
            /\ Len(received) = Len(finished)
            /\ tracker # None =>
                  /\ Len(tracker.errors) = (IF track_error THEN SumIters(finished) ELSE 0)
                  /\ Len(tracker.factors) = (IF track_factor THEN Len(finished) - 1 ELSE 0))
    /\ [][/\ ~ CallbackFailed
          /\ CallbackFailed' => tracker' = tracker /\ run' = run /\ W' = W /\ H' = H]_vars

\* the callback raised in the second of two runs, with residuals and the first
\* run's snapshot recorded
C13_Witness ==
    /\ CallbackFailed
    /\ run = 2
    /\ track_factor /\ track_error
    /\ Len(tracker.factors) = 1
    /\ Len(tracker.errors) >= 2

\* C14 as stated: with test_conv = T >= 1, a consultation at iteration > 0 is
\* skipped (rule 1) exactly when the update step before it did not recompute the
\* objective; at a judged one the current value is the one that step computed and
\* the previous value is the one held before it.
C14_JudgedOnlyWhenRecomputed ==
    (params.test_conv >= 1 /\ pc = "loop" /\ iter > 0) =>
        /\ (iter % params.test_conv # 0) = (~ fresh)
        /\ iter % params.test_conv = 0 =>
              /\ cobj = objs[iter + 1]
              /\ pobj = objs[iter]

\* the H an update step is to assign, from the W and H it starts with
NewH(Wo, Ho) ==
    IF update = "euclidean"
    THEN multiply(Ho, elop(dot(T(Wo), V), dot(T(Wo), dot(Wo, Ho)), "div"))
    ELSE multiply(Ho, elop(dot(T(Wo), elop(V, dot(Wo, Ho), "div")),
                           repmat(T(sum0(Wo)), 1, NCols), "div"))

\* the W an update step is to assign, from the W it starts with and the new H
NewW(Wo, Hn) ==
    IF update = "euclidean"
    THEN multiply(Wo, elop(dot(V, T(Hn)), dot(Wo, dot(Hn, T(Hn))), "div"))
    ELSE multiply(Wo, elop(dot(elop(V, dot(Wo, Hn), "div"), T(Hn)),
                           repmat(T(sum1(Hn)), NRows, 1), "div"))

\* C15: an iteration is update, then stabilizer, then objective step, then the
\* increment: H is assigned from the old W and H, W from the old W and the new H
\* (the divergence quotient taken again with the new H), both are then floored,
\* the objective is evaluated on the floored factors when the iteration number
\* before the increment is a test iteration, and the number goes up by one.
C15_StepOrder ==
    [][(pc = "loop" /\ pc' = "loop" /\ iter' # iter) =>
          \E Hn \in {NewH(W, H)} : \E Wn \in {NewW(W, Hn)} :
              /\ H' = max(Hn, Eps)
              /\ W' = max(Wn, Eps)
              /\ pobj' = cobj
              /\ fresh' = (params.test_conv = 0 \/ iter % params.test_conv = 0)
              /\ cobj' = (IF fresh' THEN DoObjective(V, W', H', cons, consold).val ELSE cobj)
              /\ iter' = iter + 1]_vars

\* one divergence step made from a seed for which taking the quotient again with
\* the new H gives another W than using the first quotient twice
C15_Witness ==
    /\ pc = "loop"
    /\ iter = 1
    /\ update = "divergence"
    /\ \E s \in 1..NSeeds : \E sd \in {Seed(s)} :
          \E taken \in {divergence_update(V, sd.W, sd.H)} :
          \E reused \in {divergence_update_reuse(V, sd.W, sd.H)} :
              /\ W = max(taken.W, Eps)
              /\ H = max(taken.H, Eps)
              /\ max(reused.W, Eps) # W

\* C16: with factor tracking on, the snapshot recorded for run k is run k's final
\* W and H, and no later step (seeding, update, stabilizer, a later recording)
\* changes a snapshot once recorded.
C16_SnapshotsKept ==
    /\ []((track_factor /\ tracker # None) =>
            /\ Len(tracker.factors) <= Len(finished)
            /\ \A k \in 1..Len(tracker.factors) :
                  tracker.factors[k] = [W |-> finished[k].W, H |-> finished[k].H])
    /\ [][(tracker # None /\ tracker' # None) =>
            \A k \in 1..Len(tracker.factors) : tracker'.factors[k] = tracker.factors[k]]_vars

\* two runs tracked and returned: the first run's snapshot differs from the second
\* run's and from the W and H the engine holds now
C16_Witness ==
    /\ pc = "returned"
    /\ params.n_run = 2
    /\ track_factor
    /\ Len(tracker.factors) = 2
    /\ tracker.factors[1].W # tracker.factors[2].W
    /\ tracker.factors[1].H # H

\* the update steps made so far by this call, over all its runs
StepsMade == SumIters(finished) + (IF pc = "loop" THEN iter ELSE 0)

\* C17: with error tracking on, the residuals recorded are one per update step
\* made, each the residual of the factors the step left after the stabilizer;
\* none is recorded for a run's first objective evaluation, so when the call
\* ends their number is the number of update steps of all runs.
C17_OneResidualPerStep ==
    track_error =>
        /\ tracker # None
        /\ Len(tracker.errors) = StepsMade
        /\ (pc = "loop" /\ iter = 0) => Len(tracker.errors) = SumIters(finished)
        /\ (pc = "loop" /\ iter >= 1) =>
              tracker.errors[Len(tracker.errors)] = residuals(V, W, H)

\* a call of two runs that returned with error tracking on
C17_Witness ==
    /\ pc = "returned"
    /\ track_error
    /\ params.n_run = 2
    /\ finished[1].iter >= 1 /\ finished[2].iter >= 2
    /\ Len(tracker.errors) = finished[1].iter + finished[2].iter

\* the smallest multiple of test_conv that is at least max_iter
JudgedLimit ==
    ((params.max_iter + params.test_conv - 1) \div params.test_conv) * params.test_conv

\* C18: with max_iter = N >= 1 and test_conv = T >= 1 a run makes at most the
\* smallest multiple of T that is >= N update steps, and its loop stops only at
\* a multiple of T: max_iter is examined at those iterations only, so a run can
\* make more than N updates.
C18_MaxIterRoundedUp ==
    (params.max_iter >= 1 /\ params.test_conv >= 1) =>
        /\ pc = "loop" => iter <= JudgedLimit
        /\ \A k \in 1..Len(finished) :
              /\ finished[k].iter <= JudgedLimit
              /\ finished[k].iter >= 1
              /\ finished[k].iter % params.test_conv = 0

\* a run with max_iter = MaxIter, examined every MaxConv iterations, that made
\* more than MaxIter updates
C18_Witness ==
    /\ pc = "returned"
    /\ params.max_iter = MaxIter
    /\ params.test_conv = MaxConv
    /\ MaxIter % MaxConv # 0
    /\ finished[1].iter > MaxIter
    /\ finished[1].iter = JudgedLimit

\* the iteration of the first judged consultation after an update
FirstJudged == IF params.test_conv <= 1 THEN 1 ELSE params.test_conv

\* C19: with min_residuals > 0 and no max_iter every run makes the same number of
\* update steps whatever the objective values are: 1 when test_conv is not
\* configured or 1, test_conv when it is larger.
C19_StepsFixedByConfiguration ==
    (params.min_residuals > 0 /\ params.max_iter = 0) =>
        /\ pc = "loop" => iter <= FirstJudged
        /\ \A k \in 1..Len(finished) : finished[k].iter = FirstJudged

\* a run stopped after its single update although the objective fell by more
\* than min_residuals
C19_Witness ==
    /\ pc = "returned"
    /\ params.min_residuals > 0
    /\ params.max_iter = 0
    /\ params.test_conv = 0
    /\ finished[1].iter = 1
    /\ finished[1].objs[1] - finished[1].objs[2] > params.min_residuals

=============================================================================
